---- MODULE Spec2Model ----
(***************************************************************************)
(* Model of the steep parallax fragment shader                             *)
(* (shaders/psSteepParallax.glsl): one invocation of main() for one pixel, *)
(* stepped through parallaxTrace, the lighting terms, the ambient          *)
(* occlusion ring, the self-shadow PCF kernel and the final composite,     *)
(* and of the host program (main_enhanced.cpp) that sizes the two          *)
(* viewports, toggles the features and binds the uniforms of the shader    *)
(* programs before each draw.                                              *)
(*                                                                         *)
(* GLSL floats are modelled as fixed-point integers: the integer n stands  *)
(* for n / Scale, and every product and quotient is rounded to the nearest *)
(* representable value, as a float operation rounds.  Values that can be   *)
(* non-finite (texture coordinates and the interpolation weight) carry a   *)
(* kind: "fin", "inf" (v is the sign), "nan", or "undef" for a variable    *)
(* read before it was assigned.                                            *)
(***************************************************************************)
EXTENDS Integers, Sequences, FiniteSets, TLC

VARIABLES
    \* ---- inputs, uniforms and samplers (psSteepParallax.glsl 21-42)
    FragUV, tanEyeVec, tanLightVec,
    diffuseTexture, heightMap, normalMap,
    selfShadowTest, bumpScale,
    \* ---- control position inside main()
    pc,
    \* ---- the texel an implementation returns for a non-finite coordinate
    nanTexel,
    \* ---- locals of parallaxTrace
    tanEyeN, numSteps, deltaUV, deltaH, curUV, heightRem, curSample,
    prevUV, prevSample, t, finalUV, iters, divByZero,
    \* ---- locals of main: lighting
    albedo, N, tanLightN, NdotL, hVal, specular,
    \* ---- locals of main: ambient occlusion
    ao, sumAO,
    \* ---- locals of main: self shadowing
    shadow, shadowSum, pcfSamples, pcfDx, pcfDy, numShadowSteps,
    shadowDeltaH, shadowDeltaUV, tapsRun, tapsOccluded,
    \* ---- output
    fragColor,
    \* ---- evaluations of the same fragment in successive frames
    evals, firstColor, firstUV, firstIters,
    \* ---- the other invocation in flight, while this one is running
    parked,
    \* ---- host: the window and the viewports of the last frame
    screenWidth, screenHeight, leftViewport, rightViewport,
    \* ---- host: feature toggles, shader programs and their uniform values
    features, currentShader, shaderPrograms, programUniforms,
    \* ---- host: the program and the features of the last frame drawn
    frame,
    \* ---- host: camera, lights, and the mouse as recorded and as held
    camera_rotate_angle, camera_elevate_angle, lights,
    mouseButton, mouseX, mouseY, held,
    \* ---- host: performance counters and the frames still to be rendered
    perf, framesLeft,
    \* ---- host: textures, the shared pixel buffer and the geometry
    texture_id, bumpTexture_id, normalTexture_id,
    image_data, image_width, image_height, texImage, freed, loadStep,
    VAO, VBO,
    \* ---- host: shutdown
    callStack, deleted

inputVars  == <<FragUV, tanEyeVec, tanLightVec, diffuseTexture, heightMap,
                normalMap, selfShadowTest, bumpScale>>
traceVars  == <<tanEyeN, numSteps, deltaUV, deltaH, curUV, heightRem,
                curSample, prevUV, prevSample, t, finalUV, iters, divByZero>>
lightVars  == <<albedo, N, tanLightN, NdotL, hVal, specular>>
aoVars     == <<ao, sumAO>>
shadowVars == <<shadow, shadowSum, pcfSamples, pcfDx, pcfDy, numShadowSteps,
                shadowDeltaH, shadowDeltaUV, tapsRun, tapsOccluded>>
frameVars  == <<evals, firstColor, firstUV, firstIters>>
sceneVars  == <<camera_rotate_angle, camera_elevate_angle, lights>>
mouseVars  == <<mouseButton, mouseX, mouseY, held>>
textureVars == <<texture_id, bumpTexture_id, normalTexture_id, image_data,
                 image_width, image_height, texImage, freed, loadStep>>
exitVars   == <<callStack, deleted>>
hostVars   == <<screenWidth, screenHeight, leftViewport, rightViewport,
                features, currentShader, shaderPrograms, programUniforms,
                frame, sceneVars, mouseVars, perf, framesLeft, textureVars,
                VAO, VBO, exitVars>>
outerVars  == <<frameVars, parked, hostVars>>
vars == <<inputVars, pc, nanTexel, traceVars, lightVars, aoVars, shadowVars,
          fragColor, outerVars>>

----------------------------------------------------------------------------
(* Fixed-point arithmetic                                                  *)

\* One unit (1.0) of a modelled float.
Scale == 4 * 1000

\* Side of the square textures, in texels.
TexSize == 4

Abs(a) == IF a < 0 THEN -a ELSE a
Min(a, b) == IF a < b THEN a ELSE b
Max(a, b) == IF a > b THEN a ELSE b

\* a / b for b > 0, rounded to nearest.
RDiv(a, b) == (a + b \div 2) \div b

FxMul(a, b) == RDiv(a * b, Scale)
FxDiv(a, b) == IF b > 0 THEN RDiv(a * Scale, b) ELSE RDiv((-a) * Scale, -b)

RECURSIVE SqrtIter(_, _, _)
SqrtIter(n, lo, hi) ==
    IF lo >= hi THEN lo
    ELSE LET mid == (lo + hi + 1) \div 2
         IN IF mid * mid <= n THEN SqrtIter(n, mid, hi)
                              ELSE SqrtIter(n, lo, mid - 1)

\* floor(sqrt(n)) for 0 <= n < 2^31
ISqrt(n) == SqrtIter(n, 0, 46340)

\* sqrt of a fixed-point value in [0, 1]
SqrtFx(x) == ISqrt(x * Scale)

Square(x) == FxMul(x, x)

\* x^n for an integer n >= 0, by repeated squaring
RECURSIVE IntPow(_, _)
IntPow(x, n) ==
    IF n = 0 THEN Scale
    ELSE IF n % 2 = 0 THEN Square(IntPow(x, n \div 2))
    ELSE FxMul(x, IntPow(x, n - 1))

RECURSIVE FracPow(_, _, _)
FracPow(root, f, bits) ==
    IF bits = 0 \/ f = 0 THEN Scale
    ELSE LET r == SqrtFx(root)
         IN IF 2 * f >= Scale
            THEN FxMul(r, FracPow(r, 2 * f - Scale, bits - 1))
            ELSE FracPow(r, 2 * f, bits - 1)

\* GLSL pow(x, e) for x in [0,1] and e >= 0: the integer part of e by
\* repeated multiplication, the fractional part by a chain of square roots.
pow(x, e) == FxMul(IntPow(x, e \div Scale), FracPow(x, e % Scale, 8))

\* GLSL clamp, mix and the shader's own saturate and lerp
clamp(x, lo, hi) == Min(Max(x, lo), hi)
mix(x, y, a) == FxMul(x, Scale - a) + FxMul(y, a)
saturate(x) == clamp(x, 0, Scale)
lerp(a, b, w) == a + FxMul(w, b - a)

----------------------------------------------------------------------------
(* Vectors of finite floats                                                *)

V2(x, y) == [x |-> x, y |-> y]
V3(x, y, z) == [x |-> x, y |-> y, z |-> z]

dot(a, b) == FxMul(a.x, b.x) + FxMul(a.y, b.y) + FxMul(a.z, b.z)
length(a) == ISqrt(a.x * a.x + a.y * a.y + a.z * a.z)
normalize(a) == LET l == length(a)
                IN V3(FxDiv(a.x, l), FxDiv(a.y, l), FxDiv(a.z, l))
mix3(a, b, w) == V3(mix(a.x, b.x, w), mix(a.y, b.y, w), mix(a.z, b.z, w))

----------------------------------------------------------------------------
(* Floats that may be non-finite                                           *)

F(v) == [k |-> "fin", v |-> v]
NaN == [k |-> "nan", v |-> 0]
Inf(s) == [k |-> "inf", v |-> s]
Undef == [k |-> "undef", v |-> 0]

IsFin(a) == a.k = "fin"
Sign(v) == IF v > 0 THEN 1 ELSE IF v < 0 THEN -1 ELSE 0

FAdd(a, b) ==
    IF a.k = "nan" \/ b.k = "nan" THEN NaN
    ELSE IF a.k = "inf" /\ b.k = "inf"
         THEN (IF a.v = b.v THEN a ELSE NaN)
    ELSE IF a.k = "inf" THEN a
    ELSE IF b.k = "inf" THEN b
    ELSE F(a.v + b.v)

FMul(a, b) ==
    IF a.k = "nan" \/ b.k = "nan" THEN NaN
    ELSE IF a.k = "inf" \/ b.k = "inf"
         THEN (IF Sign(a.v) * Sign(b.v) = 0 THEN NaN
               ELSE Inf(Sign(a.v) * Sign(b.v)))
    ELSE F(FxMul(a.v, b.v))

\* a / b for finite fixed-point a, b.  GLSL 3.30 leaves the result of a
\* division by zero unspecified: the IEEE result or a NaN.
FDivOutcomes(a, b) ==
    IF b # 0 THEN {F(FxDiv(a, b))}
    ELSE IF a = 0 THEN {NaN}
    ELSE {Inf(Sign(a)), NaN}

\* clamp(x, 0.0, 1.0) = min(max(x, 0), 1); which operand min and max return
\* when one of them is a NaN is undefined.
ClampOutcomes(x) ==
    IF x.k = "fin" THEN {F(clamp(x.v, 0, Scale))}
    ELSE IF x.k = "inf" THEN {F(IF x.v > 0 THEN Scale ELSE 0)}
    ELSE {F(0), F(Scale), NaN}

\* A float variable read before any assignment holds an arbitrary bit
\* pattern: some finite number, an infinity or a NaN.
Garbage == {F(0), F(Scale), Inf(1), NaN}

\* mix(x, y, a) = x * (1 - a) + y * a on possibly non-finite operands
FMix(x, y, a) == FAdd(FMul(x, FAdd(F(Scale), FMul(F(-Scale), a))), FMul(y, a))

FV2(x, y) == [x |-> x, y |-> y]
FinV2(v) == FV2(F(v.x), F(v.y))
IsFinV2(v) == IsFin(v.x) /\ IsFin(v.y)
FAdd2(a, b) == FV2(FAdd(a.x, b.x), FAdd(a.y, b.y))

----------------------------------------------------------------------------
(* Textures: TexSize x TexSize texels, GL_REPEAT wrap, GL_LINEAR filter    *)

Texels == (0 .. TexSize - 1) \X (0 .. TexSize - 1)

\* Bilinear lookup of the scalar texture tex at the finite coordinate (u, v):
\* texel centres lie at (i + 0.5) / TexSize and coordinates wrap around.  The
\* filter weights of a texel pair sum to one, so a constant texture is
\* reproduced exactly.
Bilinear(tex, u, v) ==
    LET ux == (u % Scale) * TexSize - Scale \div 2
        vy == (v % Scale) * TexSize - Scale \div 2
        i0 == ux \div Scale
        j0 == vy \div Scale
        fx == ux - i0 * Scale
        fy == vy - j0 * Scale
        a  == tex[<<i0 % TexSize, j0 % TexSize>>]
        b  == tex[<<(i0 + 1) % TexSize, j0 % TexSize>>]
        c  == tex[<<i0 % TexSize, (j0 + 1) % TexSize>>]
        d  == tex[<<(i0 + 1) % TexSize, (j0 + 1) % TexSize>>]
    IN lerp(lerp(a, b, fx), lerp(c, d, fx), fy)

\* texture(sampler, uv).r: a lookup at a non-finite coordinate returns the
\* texel nt that the implementation maps such coordinates to.
texture(tex, uv, nt) ==
    IF IsFinV2(uv) THEN Bilinear(tex, uv.x.v, uv.y.v) ELSE tex[nt.at]

\* texture(sampler, uv).rgb
texture3(tex, uv, nt) ==
    V3(texture([p \in Texels |-> tex[p].x], uv, nt),
       texture([p \in Texels |-> tex[p].y], uv, nt),
       texture([p \in Texels |-> tex[p].z], uv, nt))

\* The choices for nanTexel after a lookup: it is fixed by the first lookup
\* at a non-finite coordinate and stays the same afterwards.  The textures
\* of the model are constant along v, so the texels of row 0 stand for all.
NanTexels(nonFinite) ==
    IF nonFinite /\ ~nanTexel.set
    THEN {[set |-> TRUE, at |-> <<i, 0>>] : i \in 0 .. TexSize - 1}
    ELSE {nanTexel}

----------------------------------------------------------------------------
(* Inputs of one invocation                                                *)

HeightFlat(h) == [p \in Texels |-> h]
\* a ridge of full height along the texel column 1
HeightRidge == [p \in Texels |-> IF p[1] = 1 THEN Scale ELSE 0]

\* normal map texels encode a unit vector n as (n + 1) / 2
NormalUp == [p \in Texels |-> V3(Scale \div 2, Scale \div 2, Scale)]
NormalTilt ==
    [p \in Texels |-> IF p[1] = 1
                      THEN V3((9 * Scale) \div 10, Scale \div 2, (8 * Scale) \div 10)
                      ELSE V3(Scale \div 2, Scale \div 2, Scale)]
DiffuseStripes ==
    [p \in Texels |-> IF p[1] % 2 = 0
                      THEN V3(Scale, Scale, Scale)
                      ELSE V3(Scale \div 4, Scale \div 2, Scale \div 4)]

\* the texture sets bound to the three samplers
Material(h, n, d) == [height |-> h, normal |-> n, diffuse |-> d]
Materials ==
    { Material(HeightFlat(0), NormalUp, DiffuseStripes),
      Material(HeightFlat(Scale \div 2), NormalUp, DiffuseStripes),
      Material(HeightFlat(Scale), NormalUp, DiffuseStripes),
      Material(HeightFlat(2065), NormalTilt, DiffuseStripes),
      Material(HeightRidge, NormalUp, DiffuseStripes),
      Material(HeightRidge, NormalTilt, DiffuseStripes) }

FragUVs == { V2(Scale \div 5, Scale \div 8), V2((3 * Scale) \div 10, (6 * Scale) \div 10) }

\* interpolated tangent-space vectors (not yet normalised)
EyeVecs ==
    { V3(0, 0, Scale),                                   \* face-on
      V3(0, (3 * Scale) \div 5, (4 * Scale) \div 5),
      V3(Scale, 0, Scale),                               \* 45 degrees
      V3(0, Scale, 0) }                                  \* grazing, z = 0
LightVecs ==
    { V3(0, 0, Scale),
      V3(0, (24 * Scale) \div 25, (7 * Scale) \div 25),
      V3(Scale, 0, 0) }                                  \* grazing, z = 0

BumpScales == { 0, Scale \div 20, Scale \div 8 }        \* 0, 0.05, 0.125
SelfShadowTests == { 0, Scale }

----------------------------------------------------------------------------
(* Constants of the shader                                                 *)

diffuseCoeff      == (7 * Scale) \div 10
baseSpecularCoeff == (6 * Scale) \div 10
aoMin             == (8 * Scale) \div 100
shadowMin         == Scale \div 10
AO_SAMPLES        == 8
AO_RADIUS         == (12 * Scale) \div 1000
lightColor        == V3(Scale, Scale, (65 * Scale) \div 100)
ambientBase       == V3(FxMul((4 * Scale) \div 10, (14 * Scale) \div 10),
                        FxMul((4 * Scale) \div 10, (14 * Scale) \div 10),
                        FxMul((6 * Scale) \div 10, (14 * Scale) \div 10))
steepScale        == Scale

Zero2 == FV2(F(0), F(0))
Zero3 == V3(0, 0, 0)

----------------------------------------------------------------------------
(* Host state (main_enhanced.cpp)                                          *)

\* the window size the program asks for
InitialWidth == 1400
InitialHeight == 700

\* the programs initShaders tries to build
Programs == {"basic", "steep", "enhanced", "pbr"}

\* the feature toggles the handlers read, and their defaults; pbrShading
\* stands for the toggles no handler reads
DefaultFeatures ==
    [multisampling |-> TRUE, bumpy |-> FALSE, selfShadowing |-> TRUE,
     parallaxEnabled |-> TRUE, pbrShading |-> FALSE, autoRotate |-> FALSE]

\* the uniforms each fragment shader declares, of those bindUniforms knows
\* or the shaders read as a self-shadow or parallax switch
basicUniforms == {"bumpScale", "parralax"}
steepUniforms == {"selfShadowTest", "bumpScale"}
enhancedUniforms == {"bumpScale", "enableParallax", "enableSelfShadowing"}
pbrUniforms == {"bumpScale", "enableParallax"}

\* glGetUniformLocation(prog, name) >= 0
Declares(prog) ==
    CASE prog = "basic" -> basicUniforms
      [] prog = "steep" -> steepUniforms
      [] prog = "enhanced" -> enhancedUniforms
      [] prog = "pbr" -> pbrUniforms

\* a uniform without an initializer is zero (false) after linking
DefaultUniforms ==
    [bumpScale |-> 0, selfShadowTest |-> 0, parralax |-> 0,
     enableParallax |-> FALSE, enableSelfShadowing |-> FALSE]

\* camera angles count half degrees, light coordinates count tenths
AngleUnit == 2
LightUnit == 10

\* the light initLights creates
DefaultLight == [x |-> 0, y |-> 0, z |-> 8 * LightUnit]

Viewport(x, y, w, h) == [x |-> x, y |-> y, w |-> w, h |-> h]
NoViewport == Viewport(0, 0, 0, 0)
NoFrame ==
    [drawn |-> FALSE, left |-> "none", shader |-> "none",
     features |-> DefaultFeatures, width |-> 0, height |-> 0,
     light |-> DefaultLight]

\* the program initShaders selects
DefaultShader(loaded) == IF "enhanced" \in loaded THEN "enhanced" ELSE "steep"

\* the three textures, in the order initTextures loads them
Textures == <<"diffuse", "bump", "normal">>

\* what cleanupResources releases, in its order
Resources ==
    <<"texture_id", "bumpTexture_id", "normalTexture_id", "shaderPrograms",
      "VBO", "VAO", "image_data">>

\* the pixel buffer, the texture ids and the uploads after initTextures has
\* loaded three readable 2 x 2 images
TexturesLoaded ==
    /\ texture_id = 1 /\ bumpTexture_id = 2 /\ normalTexture_id = 3
    /\ image_data = 3 /\ image_width = 2 /\ image_height = 2
    /\ texImage = [diffuse |-> 1, bump |-> 2, normal |-> 3]
    /\ freed = {1, 2}
    /\ loadStep = Len(Textures)

\* the host variables outside the textures and the geometry, with the
\* given programs built and the given lights created
HostGlobals(loaded, lit) ==
    /\ screenWidth = InitialWidth /\ screenHeight = InitialHeight
    /\ leftViewport = NoViewport /\ rightViewport = NoViewport
    /\ features = DefaultFeatures
    /\ shaderPrograms = loaded
    /\ currentShader = DefaultShader(loaded)
    /\ programUniforms = [p \in Programs |-> DefaultUniforms]
    /\ frame = NoFrame
    /\ camera_rotate_angle = 0 /\ camera_elevate_angle = -20 * AngleUnit
    /\ lights = lit
    /\ mouseButton = "none" /\ mouseX = 0 /\ mouseY = 0 /\ held = {}
    /\ perf = [frameCount |-> 0]
    /\ callStack = << >>
    /\ deleted = [r \in DOMAIN Resources |-> 0]

\* the host after main() has created the window, loaded the textures,
\* built the programs and the geometry and created the light
HostStarted(loaded) ==
    /\ HostGlobals(loaded, <<DefaultLight>>)
    /\ TexturesLoaded
    /\ VAO = 1 /\ VBO = 1

\* no invocation is parked
NoInvocation == [pc |-> "none"]

\* the locals of an invocation that has not yet started
FreshLocals ==
    /\ tanEyeN = Zero3 /\ numSteps = 0 /\ deltaUV = Zero2 /\ deltaH = 0
    /\ curUV = Zero2 /\ heightRem = 0 /\ curSample = 0
    /\ prevUV = Zero2 /\ prevSample = 0 /\ t = F(0) /\ finalUV = Zero2
    /\ iters = 0 /\ divByZero = FALSE
    /\ albedo = Zero3 /\ N = Zero3 /\ tanLightN = Zero3 /\ NdotL = 0
    /\ hVal = 0 /\ specular = 0
    /\ ao = 0 /\ sumAO = 0
    /\ shadow = 0 /\ shadowSum = 0 /\ pcfSamples = 0 /\ pcfDx = 0 /\ pcfDy = 0
    /\ numShadowSteps = 0 /\ shadowDeltaH = 0 /\ shadowDeltaUV = Zero2
    /\ tapsRun = 0 /\ tapsOccluded = 0
    /\ fragColor = Zero3

Init ==
    /\ FragUV \in FragUVs
    /\ tanEyeVec \in EyeVecs
    /\ tanLightVec \in LightVecs
    /\ \E m \in Materials :
          /\ heightMap = m.height
          /\ normalMap = m.normal
          /\ diffuseTexture = m.diffuse
    /\ selfShadowTest \in SelfShadowTests
    /\ bumpScale \in BumpScales
    /\ pc = "main"
    /\ FreshLocals
    /\ nanTexel = [set |-> FALSE, at |-> <<0, 0>>]
    /\ evals = 0 /\ firstColor = Zero3 /\ firstUV = Zero2 /\ firstIters = 0
    /\ parked = NoInvocation
    /\ HostStarted(Programs)
    /\ framesLeft = 0

----------------------------------------------------------------------------
(* parallaxTrace                                                           *)

\* the step count with the two ends of the blend exchanged
NumSteps_EndsSwapped(viewDir) == mix(36 * Scale, 72 * Scale, Abs(viewDir.z))

\* numSteps = mix(72.0, 36.0, abs(viewDir.z))
NumSteps(viewDir) == mix(72 * Scale, 36 * Scale, Abs(viewDir.z))

\* the divisor abs(viewDir.z) * numSteps of the per-step delta
DeltaDivisor(viewDir) == FxMul(Abs(viewDir.z), NumSteps(viewDir))

\* the two numerators of -viewDir.yx * bumpScale * steepScale
DeltaNumerator(viewDir, scale) ==
    V2(FxMul(FxMul(-viewDir.y, scale), steepScale),
       FxMul(FxMul(-viewDir.x, scale), steepScale))

\* the values deltaUV can take
DeltaUVOutcomes(viewDir, scale) ==
    { FV2(qx, qy) :
        qx \in FDivOutcomes(DeltaNumerator(viewDir, scale).x, DeltaDivisor(viewDir)),
        qy \in FDivOutcomes(DeltaNumerator(viewDir, scale).y, DeltaDivisor(viewDir)) }

\* main step 2 and parallaxTrace steps 1-6: normalise the view vector, derive
\* the step count and the deltas, fetch the first sample.  prevUV is declared
\* without an initialiser.
TraceEnter ==
    /\ pc = "main"
    /\ LET view == normalize(tanEyeVec)
       IN /\ tanEyeN' = view
          /\ numSteps' = NumSteps(view)
          /\ deltaUV' \in DeltaUVOutcomes(view, bumpScale)
          /\ divByZero' = (DeltaDivisor(view) = 0)
          /\ deltaH' = FxDiv(Scale, NumSteps(view))
    /\ curUV' = FinV2(FragUV)
    /\ heightRem' = Scale
    /\ curSample' = texture(heightMap, FinV2(FragUV), nanTexel)
    /\ prevUV' = FV2(Undef, Undef)
    /\ prevSample' = Scale
    /\ iters' = 0
    /\ pc' = "march"
    /\ UNCHANGED <<outerVars, inputVars, nanTexel, t, finalUV, lightVars, aoVars,
                   shadowVars, fragColor>>

\* the loop condition tested against the ray height of the previous step
MarchContinues_PreviousHeight == curSample < heightRem + deltaH

\* the loop condition with the height comparison reversed
MarchContinues_Reversed == heightRem > 0 /\ curSample > heightRem

\* the loop condition of the linear search
MarchContinues == heightRem > 0 /\ curSample < heightRem

\* one iteration of the while loop
MarchStep ==
    /\ pc = "march"
    /\ MarchContinues
    /\ heightRem' = heightRem - deltaH
    /\ prevUV' = curUV
    /\ prevSample' = curSample
    /\ curUV' = FAdd2(curUV, deltaUV)
    /\ \E nt \in NanTexels(~IsFinV2(FAdd2(curUV, deltaUV))) :
          /\ nanTexel' = nt
          /\ curSample' = texture(heightMap, FAdd2(curUV, deltaUV), nt)
    /\ iters' = iters + 1
    /\ UNCHANGED <<outerVars, inputVars, pc, tanEyeN, numSteps, deltaUV, deltaH, t,
                   finalUV, divByZero, lightVars, aoVars, shadowVars,
                   fragColor>>

afterDepth  == curSample - heightRem
beforeDepth == prevSample - (heightRem + deltaH)

\* the values a read of prevUV can yield
PrevUVReads ==
    { FV2(gx, gy) : gx \in (IF prevUV.x.k = "undef" THEN Garbage ELSE {prevUV.x}),
                    gy \in (IF prevUV.y.k = "undef" THEN Garbage ELSE {prevUV.y}) }

\* the interpolation weight t = clamp(beforeDepth / (beforeDepth + afterDepth), 0, 1)
WeightOutcomes(before, after) ==
    UNION { ClampOutcomes(q) : q \in FDivOutcomes(before, before + after) }

\* finalUV = mix(prevUV, curUV, t)
Interpolated(prev, cur, w) ==
    FV2(FMix(prev.x, cur.x, w), FMix(prev.y, cur.y, w))

\* parallaxTrace step 8: leave the loop, interpolate and return
Interpolate ==
    /\ pc = "march"
    /\ ~MarchContinues
    /\ \E w \in WeightOutcomes(beforeDepth, afterDepth), prev \in PrevUVReads :
          /\ t' = w
          /\ finalUV' = Interpolated(prev, curUV, w)
    /\ divByZero' = (divByZero \/ beforeDepth + afterDepth = 0)
    /\ pc' = "traced"
    /\ UNCHANGED <<outerVars, inputVars, nanTexel, tanEyeN, numSteps, deltaUV, deltaH,
                   curUV, heightRem, curSample, prevUV, prevSample, iters,
                   lightVars, aoVars, shadowVars, fragColor>>

----------------------------------------------------------------------------
(* main: albedo, normals and the lighting terms (steps 4-10)               *)

\* texelSize = 1.0 / vec2(textureSize(heightMap, 0))
texelSize == V2(FxDiv(Scale, TexSize * Scale), FxDiv(Scale, TexSize * Scale))

OffsetUV(uv, du, dv) == FAdd2(uv, FV2(F(du), F(dv)))

computeHeightNormalTS(hmap, uv, texel, scale, nt) ==
    LET hc == texture(hmap, uv, nt)
        hr == texture(hmap, OffsetUV(uv, texel.x, 0), nt)
        hu == texture(hmap, OffsetUV(uv, 0, texel.y), nt)
        dx == FxMul(hr - hc, scale)
        dy == FxMul(hu - hc, scale)
    IN normalize(V3(-dx, -dy, Scale))

\* normalize(texture(normalMap, uv).rgb * 2.0 - 1.0)
DecodeNormal(nmap, uv, nt) ==
    LET c == texture3(nmap, uv, nt)
    IN normalize(V3(2 * c.x - Scale, 2 * c.y - Scale, 2 * c.z - Scale))

\* N = normalize(mix(nM, nH, 0.5))
BlendedNormal(uv, nt) ==
    normalize(mix3(DecodeNormal(normalMap, uv, nt),
                   computeHeightNormalTS(heightMap, uv, texelSize, bumpScale, nt),
                   Scale \div 2))

\* tanLightN = normalize(tanLightVec); tanLightN.x = -tanLightN.x
FlippedLight(l) == LET n == normalize(l) IN V3(-n.x, n.y, n.z)

Add3(a, b) == V3(a.x + b.x, a.y + b.y, a.z + b.z)

\* specular = pow(NdotH, expo) * baseSpecularCoeff * boost
Specular(nDotH, h) ==
    LET boost == lerp((9 * Scale) \div 10, (5 * Scale) \div 2, pow(h, (5 * Scale) \div 2))
        expo  == lerp(32 * Scale, 96 * Scale, h)
    IN FxMul(FxMul(pow(nDotH, expo), baseSpecularCoeff), boost)

Shade ==
    /\ pc = "traced"
    /\ \E nt \in NanTexels(~IsFinV2(finalUV)) :
          LET n == BlendedNormal(finalUV, nt)
              l == FlippedLight(tanLightVec)
              halfVec == normalize(Add3(l, tanEyeN))
              h == texture(heightMap, finalUV, nt)
          IN /\ nanTexel' = nt
             /\ albedo' = texture3(diffuseTexture, finalUV, nt)
             /\ N' = n
             /\ tanLightN' = l
             /\ NdotL' = Max(dot(n, l), 0)
             /\ hVal' = h
             /\ specular' = Specular(Max(dot(n, halfVec), 0), h)
    /\ pc' = "ao"
    /\ UNCHANGED <<outerVars, inputVars, traceVars, aoVars, shadowVars, fragColor>>

----------------------------------------------------------------------------
(* main: ambient occlusion (step 11)                                       *)

\* cos and sin of 45 degrees
Diag == ISqrt((Scale * Scale) \div 2)

\* dir = vec2(cos(ang), sin(ang)) for ang = 2 pi i / AO_SAMPLES
AoDir(i) ==
    CASE i = 0 -> V2(Scale, 0)
      [] i = 1 -> V2(Diag, Diag)
      [] i = 2 -> V2(0, Scale)
      [] i = 3 -> V2(-Diag, Diag)
      [] i = 4 -> V2(-Scale, 0)
      [] i = 5 -> V2(-Diag, -Diag)
      [] i = 6 -> V2(0, -Scale)
      [] i = 7 -> V2(Diag, -Diag)

\* one sample of the ring: the raw occlusion weighted by normal similarity
RawAO(i, nt) ==
    LET uvS == OffsetUV(finalUV, FxMul(AoDir(i).x, AO_RADIUS),
                                 FxMul(AoDir(i).y, AO_RADIUS))
        neighborH == texture(heightMap, uvS, nt)
        raw == saturate(hVal - neighborH + (3 * Scale) \div 100)
        nS == DecodeNormal(normalMap, uvS, nt)
    IN FxMul(raw, (4 * Scale) \div 10 + FxMul((6 * Scale) \div 10, Max(dot(N, nS), 0)))

RECURSIVE SumAO(_, _)
SumAO(i, nt) == IF i = AO_SAMPLES THEN 0 ELSE RawAO(i, nt) + SumAO(i + 1, nt)

\* the result with the floor added to the factor instead of remapping it
AoResult_FloorAdded(sum) ==
    aoMin + lerp(FxDiv(sum, AO_SAMPLES * Scale), Scale, Abs(N.z))

\* average, flatten towards 1 by |N.z|, remap into [aoMin, 1]
AoResult(sum) ==
    lerp(aoMin, Scale, lerp(FxDiv(sum, AO_SAMPLES * Scale), Scale, Abs(N.z)))

AmbientOcclusion ==
    /\ pc = "ao"
    /\ \E nt \in NanTexels(~IsFinV2(finalUV)) :
          /\ nanTexel' = nt
          /\ sumAO' = SumAO(0, nt)
          /\ ao' = AoResult(SumAO(0, nt))
    /\ pc' = "shadow"
    /\ UNCHANGED <<outerVars, inputVars, traceVars, lightVars, shadowVars, fragColor>>

----------------------------------------------------------------------------
(* main: self shadowing (step 12)                                          *)

pcfRings == 3

\* the guard without the test that the surface faces the light
ShadowPassRuns_NoFacingTest == selfShadowTest > 0

\* the guard of the self-shadow pass
ShadowPassRuns == selfShadowTest > 0 /\ NdotL > 0

\* numShadowSteps = int(lerp(48.0, 12.0, abs(tanLightN.z)))
NumShadowSteps(l) == lerp(48 * Scale, 12 * Scale, Abs(l.z)) \div Scale

ShadowDivisor(l) == FxMul(Abs(l.z), NumShadowSteps(l) * Scale)

\* the light delta taken from light.xy, without the swap
ShadowDeltaUVOutcomes_NoSwap(l, scale) ==
    { FV2(qx, qy) :
        qx \in FDivOutcomes(FxMul(FxMul(l.x, scale), steepScale), ShadowDivisor(l)),
        qy \in FDivOutcomes(FxMul(FxMul(l.y, scale), steepScale), ShadowDivisor(l)) }

ShadowDeltaUVOutcomes(l, scale) ==
    { FV2(qx, qy) :
        qx \in FDivOutcomes(FxMul(FxMul(l.y, scale), steepScale), ShadowDivisor(l)),
        qy \in FDivOutcomes(FxMul(FxMul(l.x, scale), steepScale), ShadowDivisor(l)) }

\* float shadow = 1.0; the guard fails and the pass is skipped
ShadowSkip ==
    /\ pc = "shadow"
    /\ ~ShadowPassRuns
    /\ shadow' = Scale
    /\ pc' = "composite"
    /\ UNCHANGED <<outerVars, inputVars, nanTexel, traceVars, lightVars, aoVars,
                   shadowSum, pcfSamples, pcfDx, pcfDy, numShadowSteps,
                   shadowDeltaH, shadowDeltaUV, tapsRun, tapsOccluded,
                   fragColor>>

\* float shadow = 1.0; the guard holds: set up the march and the kernel
ShadowEnter ==
    /\ pc = "shadow"
    /\ ShadowPassRuns
    /\ shadow' = Scale
    /\ numShadowSteps' = NumShadowSteps(tanLightN)
    /\ shadowDeltaH' = FxDiv(Scale, NumShadowSteps(tanLightN) * Scale)
    /\ shadowDeltaUV' \in ShadowDeltaUVOutcomes(tanLightN, bumpScale)
    /\ shadowSum' = 0
    /\ pcfSamples' = 4
    /\ pcfDx' = -pcfRings
    /\ pcfDy' = -pcfRings
    /\ tapsRun' = 0
    /\ tapsOccluded' = 0
    /\ pc' = "pcf"
    /\ UNCHANGED <<outerVars, inputVars, nanTexel, traceVars, lightVars, aoVars, fragColor>>

\* the inner loop of one tap: TRUE when a sample rises above the light ray
RECURSIVE LightMarch(_, _, _, _)
LightMarch(i, shadowHeight, shadowUV, nt) ==
    IF ~(i < numShadowSteps /\ shadowHeight < Scale) THEN FALSE
    ELSE IF texture(heightMap, shadowUV, nt) > shadowHeight THEN TRUE
    ELSE LightMarch(i + 1, shadowHeight + shadowDeltaH,
                    FAdd2(shadowUV, shadowDeltaUV), nt)

\* inShadow of the tap (dx, dy)
TapInShadow(dx, dy, nt) ==
    LightMarch(0,
               texture(heightMap, finalUV, nt) + FxMul(shadowDeltaH, Scale \div 10),
               OffsetUV(finalUV, (dx * 15 * Scale) \div 10000,
                                 (dy * 15 * Scale) \div 10000),
               nt)

\* the contribution of one tap to shadowSum
TapContribution(inShadow) == IF inShadow THEN shadowMin ELSE Scale

\* one pass through the body of the dx, dy loops
ShadowTap ==
    /\ pc = "pcf"
    /\ pcfDx <= pcfRings
    /\ \E nt \in NanTexels(~IsFinV2(finalUV) \/ ~IsFinV2(shadowDeltaUV)) :
          /\ nanTexel' = nt
          /\ shadowSum' = shadowSum + TapContribution(TapInShadow(pcfDx, pcfDy, nt))
          /\ tapsOccluded' = tapsOccluded +
                               (IF TapInShadow(pcfDx, pcfDy, nt) THEN 1 ELSE 0)
    /\ pcfSamples' = pcfSamples + 1
    /\ tapsRun' = tapsRun + 1
    /\ IF pcfDy < pcfRings
       THEN pcfDy' = pcfDy + 1 /\ pcfDx' = pcfDx
       ELSE pcfDy' = -pcfRings /\ pcfDx' = pcfDx + 1
    /\ UNCHANGED <<outerVars, inputVars, pc, traceVars, lightVars, aoVars, shadow,
                   numShadowSteps, shadowDeltaH, shadowDeltaUV, fragColor>>

\* shadow = shadowSum / float(pcfSamples)
ShadowAverage ==
    /\ pc = "pcf"
    /\ pcfDx > pcfRings
    /\ shadow' = FxDiv(shadowSum, pcfSamples * Scale)
    /\ pc' = "composite"
    /\ UNCHANGED <<outerVars, inputVars, nanTexel, traceVars, lightVars, aoVars,
                   shadowSum, pcfSamples, pcfDx, pcfDy, numShadowSteps,
                   shadowDeltaH, shadowDeltaUV, tapsRun, tapsOccluded,
                   fragColor>>

----------------------------------------------------------------------------
(* main: final composite (step 13)                                         *)

\* the composite with the occlusion factor on ambient and diffuse alike
CompositeChannel_AoOnDiffuse(alb, amb, light, occl, nDotL, shad, spec) ==
    FxMul(alb, FxMul(amb + FxMul(FxMul(FxMul(light, diffuseCoeff), nDotL), shad),
                     occl))
    + FxMul(FxMul(light, spec), shad)

\* the composite with the specular term left out of the shadow
CompositeChannel_SpecularUnshadowed(alb, amb, light, occl, nDotL, shad, spec) ==
    FxMul(alb, FxMul(amb, occl)
               + FxMul(FxMul(FxMul(light, diffuseCoeff), nDotL), shad))
    + FxMul(light, spec)

\* one channel of
\*   albedo * (ambientBase * ao + lightColor * diffuseCoeff * NdotL * shadow)
\*   + lightColor * specular * shadow
CompositeChannel(alb, amb, light, occl, nDotL, shad, spec) ==
    FxMul(alb, FxMul(amb, occl)
               + FxMul(FxMul(FxMul(light, diffuseCoeff), nDotL), shad))
    + FxMul(FxMul(light, spec), shad)

Composite ==
    /\ pc = "composite"
    /\ fragColor' =
         V3(CompositeChannel(albedo.x, ambientBase.x, lightColor.x, ao, NdotL, shadow, specular),
            CompositeChannel(albedo.y, ambientBase.y, lightColor.y, ao, NdotL, shadow, specular),
            CompositeChannel(albedo.z, ambientBase.z, lightColor.z, ao, NdotL, shadow, specular))
    /\ pc' = "done"
    /\ UNCHANGED <<outerVars, inputVars, nanTexel, traceVars, lightVars, aoVars, shadowVars>>

----------------------------------------------------------------------------
Next ==
    \/ TraceEnter
    \/ MarchStep
    \/ Interpolate
    \/ Shade
    \/ AmbientOcclusion
    \/ ShadowSkip
    \/ ShadowEnter
    \/ ShadowTap
    \/ ShadowAverage
    \/ Composite

Spec == Init /\ [][Next]_vars

----------------------------------------------------------------------------
(* The same fragment drawn again in the next frame                         *)

\* Handle_Display is the idle callback: every frame runs the shader again
\* on the same inputs.  The locals of the new invocation start afresh.
Reevaluate ==
    /\ pc = "done"
    /\ evals = 0
    /\ evals' = 1
    /\ firstColor' = fragColor
    /\ pc' = "main"
    /\ tanEyeN' = Zero3 /\ numSteps' = 0 /\ deltaUV' = Zero2 /\ deltaH' = 0
    /\ curUV' = Zero2 /\ heightRem' = 0 /\ curSample' = 0
    /\ prevUV' = Zero2 /\ prevSample' = 0 /\ t' = F(0) /\ finalUV' = Zero2
    /\ iters' = 0
    /\ albedo' = Zero3 /\ N' = Zero3 /\ tanLightN' = Zero3 /\ NdotL' = 0
    /\ hVal' = 0 /\ specular' = 0
    /\ ao' = 0 /\ sumAO' = 0
    /\ shadow' = 0 /\ shadowSum' = 0 /\ pcfSamples' = 0
    /\ pcfDx' = 0 /\ pcfDy' = 0
    /\ numShadowSteps' = 0 /\ shadowDeltaH' = 0 /\ shadowDeltaUV' = Zero2
    /\ tapsRun' = 0 /\ tapsOccluded' = 0
    /\ fragColor' = Zero3
    /\ UNCHANGED <<inputVars, nanTexel, divByZero, parked, firstUV, firstIters,
                   hostVars>>

NextFrames ==
    \/ Next
    \/ Reevaluate

SpecFrames == Init /\ [][NextFrames]_vars

----------------------------------------------------------------------------
(* Two invocations in flight                                               *)

\* the inputs, the position, the locals and the output of the running
\* invocation
Invocation ==
    [pc |-> pc, FragUV |-> FragUV, tanEyeVec |-> tanEyeVec,
      tanLightVec |-> tanLightVec, tanEyeN |-> tanEyeN,
      numSteps |-> numSteps, deltaUV |-> deltaUV, deltaH |-> deltaH,
      curUV |-> curUV, heightRem |-> heightRem, curSample |-> curSample,
      prevUV |-> prevUV, prevSample |-> prevSample, t |-> t,
      finalUV |-> finalUV, iters |-> iters, divByZero |-> divByZero,
      albedo |-> albedo, N |-> N, tanLightN |-> tanLightN, NdotL |-> NdotL,
      hVal |-> hVal, specular |-> specular, ao |-> ao, sumAO |-> sumAO,
      shadow |-> shadow, shadowSum |-> shadowSum, pcfSamples |-> pcfSamples,
      pcfDx |-> pcfDx, pcfDy |-> pcfDy, numShadowSteps |-> numShadowSteps,
      shadowDeltaH |-> shadowDeltaH, shadowDeltaUV |-> shadowDeltaUV,
      tapsRun |-> tapsRun, tapsOccluded |-> tapsOccluded,
      fragColor |-> fragColor]

\* The GPU suspends the running invocation and resumes the other one.  The
\* samplers and the uniforms belong to the program, not to an invocation.
Switch ==
    /\ parked # NoInvocation
    /\ parked' = Invocation
    /\ pc' = parked.pc /\ FragUV' = parked.FragUV
    /\ tanEyeVec' = parked.tanEyeVec /\ tanLightVec' = parked.tanLightVec
    /\ tanEyeN' = parked.tanEyeN /\ numSteps' = parked.numSteps
    /\ deltaUV' = parked.deltaUV /\ deltaH' = parked.deltaH
    /\ curUV' = parked.curUV /\ heightRem' = parked.heightRem
    /\ curSample' = parked.curSample /\ prevUV' = parked.prevUV
    /\ prevSample' = parked.prevSample /\ t' = parked.t
    /\ finalUV' = parked.finalUV /\ iters' = parked.iters
    /\ divByZero' = parked.divByZero /\ albedo' = parked.albedo
    /\ N' = parked.N /\ tanLightN' = parked.tanLightN
    /\ NdotL' = parked.NdotL /\ hVal' = parked.hVal
    /\ specular' = parked.specular /\ ao' = parked.ao
    /\ sumAO' = parked.sumAO /\ shadow' = parked.shadow
    /\ shadowSum' = parked.shadowSum /\ pcfSamples' = parked.pcfSamples
    /\ pcfDx' = parked.pcfDx /\ pcfDy' = parked.pcfDy
    /\ numShadowSteps' = parked.numShadowSteps
    /\ shadowDeltaH' = parked.shadowDeltaH
    /\ shadowDeltaUV' = parked.shadowDeltaUV /\ tapsRun' = parked.tapsRun
    /\ tapsOccluded' = parked.tapsOccluded /\ fragColor' = parked.fragColor
    /\ UNCHANGED <<diffuseTexture, heightMap, normalMap, selfShadowTest,
                   bumpScale, nanTexel, frameVars, hostVars>>

\* the draws of two fragments with equal interpolated inputs
PixelDraws ==
    { [material |-> Material(HeightFlat(Scale), NormalUp, DiffuseStripes),
       selfShadowTest |-> 0],
      [material |-> Material(HeightFlat(Scale \div 2), NormalUp, DiffuseStripes),
       selfShadowTest |-> Scale] }

InitPixels ==
    /\ FragUV \in FragUVs
    /\ tanEyeVec = V3(0, 0, Scale)
    /\ tanLightVec = V3(0, 0, Scale)
    /\ \E d \in PixelDraws :
          /\ heightMap = d.material.height
          /\ normalMap = d.material.normal
          /\ diffuseTexture = d.material.diffuse
          /\ selfShadowTest = d.selfShadowTest
    /\ bumpScale = Scale \div 20
    /\ pc = "main"
    /\ FreshLocals
    /\ nanTexel = [set |-> FALSE, at |-> <<0, 0>>]
    /\ evals = 0 /\ firstColor = Zero3 /\ firstUV = Zero2 /\ firstIters = 0
    /\ parked = Invocation
    /\ HostStarted(Programs)
    /\ framesLeft = 0

NextPixels ==
    \/ Next
    \/ Switch

SpecPixels == InitPixels /\ [][NextPixels]_vars

----------------------------------------------------------------------------
(* parallaxTrace applied at two neighbouring bump scales                   *)

\* the smallest step of bumpScale
Epsilon == 1

\* bump scales from 0.625 upwards, one epsilon apart
TraceBumpSpan == 250
TraceBumpScales ==
    { (5 * Scale) \div 8 + k * Epsilon : k \in 0 .. TraceBumpSpan }

InitTrace ==
    /\ FragUV = V2(Scale \div 2, Scale \div 8)
    /\ tanEyeVec = V3(0, (24 * Scale) \div 25, (7 * Scale) \div 25)
    /\ tanLightVec = V3(0, 0, Scale)
    /\ heightMap = HeightRidge
    /\ normalMap = NormalUp
    /\ diffuseTexture = DiffuseStripes
    /\ selfShadowTest = 0
    /\ bumpScale \in TraceBumpScales
    /\ pc = "main"
    /\ FreshLocals
    /\ nanTexel = [set |-> FALSE, at |-> <<0, 0>>]
    /\ evals = 0 /\ firstColor = Zero3 /\ firstUV = Zero2 /\ firstIters = 0
    /\ parked = NoInvocation
    /\ HostStarted(Programs)
    /\ framesLeft = 0

\* parallaxTrace has returned; call it again with bumpScale + epsilon and
\* the other arguments unchanged
Nudge ==
    /\ pc = "traced"
    /\ evals = 0
    /\ evals' = 1
    /\ firstUV' = finalUV
    /\ firstIters' = iters
    /\ bumpScale' = bumpScale + Epsilon
    /\ pc' = "main"
    /\ tanEyeN' = Zero3 /\ numSteps' = 0 /\ deltaUV' = Zero2 /\ deltaH' = 0
    /\ curUV' = Zero2 /\ heightRem' = 0 /\ curSample' = 0
    /\ prevUV' = Zero2 /\ prevSample' = 0 /\ t' = F(0) /\ finalUV' = Zero2
    /\ iters' = 0 /\ divByZero' = FALSE
    /\ UNCHANGED <<FragUV, tanEyeVec, tanLightVec, diffuseTexture, heightMap,
                   normalMap, selfShadowTest, nanTexel, lightVars, aoVars,
                   shadowVars, fragColor, firstColor, parked, hostVars>>

NextTrace ==
    \/ TraceEnter
    \/ MarchStep
    \/ Interpolate
    \/ Nudge

SpecTrace == InitTrace /\ [][NextTrace]_vars

----------------------------------------------------------------------------
(* The host callbacks                                                      *)

\* the keys that toggle a feature the shaders read or select a program
Keys == {"b", "s", "p", "j", "e", "u", "i"}

\* the program sets initShaders can end with
LoadOutcomes ==
    { Programs, {"basic", "steep"}, {"basic", "enhanced"}, {"steep", "pbr"} }

\* the GPU is not running the right-hand draw
FrameFinished == pc \in {"idle", "done"}

\* no shutdown has begun
Running == callStack = << >>

\* the shader a key selects when nothing checks that it was built
Selected_NoFallback(name) == name

\* the flag a key owns switched on, whatever it was
ToggledFeatures_SetOnly(key) ==
    CASE key \in {"m", "M"} -> [features EXCEPT !.multisampling = TRUE]
      [] key \in {"b", "B"} -> [features EXCEPT !.bumpy = TRUE]
      [] key \in {"s", "S"} -> [features EXCEPT !.selfShadowing = TRUE]
      [] key \in {"p", "P"} -> [features EXCEPT !.parallaxEnabled = TRUE]
      [] key = "1" -> [features EXCEPT !.pbrShading = TRUE]
      [] key = " " -> [features EXCEPT !.autoRotate = TRUE]
      [] OTHER -> features

\* the shader a key selects, with the fallback when it was not built
Selected(name) == IF name \in shaderPrograms THEN name ELSE "steep"

\* the feature flags after a key
ToggledFeatures(key) ==
    CASE key \in {"m", "M"} -> [features EXCEPT !.multisampling = ~@]
      [] key \in {"b", "B"} -> [features EXCEPT !.bumpy = ~@]
      [] key \in {"s", "S"} -> [features EXCEPT !.selfShadowing = ~@]
      [] key \in {"p", "P"} -> [features EXCEPT !.parallaxEnabled = ~@]
      [] key = "1" -> [features EXCEPT !.pbrShading = ~@]
      [] key = " " -> [features EXCEPT !.autoRotate = ~@]
      [] OTHER -> features

\* the shader selection after a key
SelectedShader(key) ==
    CASE key \in {"j", "J"} -> Selected("basic")
      [] key \in {"e", "E"} -> Selected("enhanced")
      [] key \in {"u", "U"} -> Selected("pbr")
      [] key \in {"i", "I"} -> "steep"
      [] OTHER -> currentShader

\* Handle_Keyboard for one key other than the quit keys
KeyPress(key) ==
    /\ FrameFinished
    /\ Running
    /\ features' = ToggledFeatures(key)
    /\ currentShader' = SelectedShader(key)
    /\ UNCHANGED <<inputVars, pc, nanTexel, traceVars, lightVars, aoVars,
                   shadowVars, fragColor, frameVars, parked, screenWidth,
                   screenHeight, leftViewport, rightViewport, shaderPrograms,
                   programUniforms, frame, sceneVars, mouseVars, perf,
                   framesLeft, textureVars, VAO, VBO, exitVars>>

Handle_Keyboard == \E key \in Keys : KeyPress(key)

\* the window sizes tried
MaxWidth == 9
MaxHeight == 5

Handle_Reshape ==
    /\ FrameFinished
    /\ Running
    /\ \E w \in 0 .. MaxWidth, h \in 0 .. MaxHeight :
          /\ screenWidth' = w
          /\ screenHeight' = h
    /\ UNCHANGED <<inputVars, pc, nanTexel, traceVars, lightVars, aoVars,
                   shadowVars, fragColor, frameVars, parked, leftViewport,
                   rightViewport, features, currentShader, shaderPrograms,
                   programUniforms, frame, sceneVars, mouseVars, perf,
                   framesLeft, textureVars, VAO, VBO, exitVars>>

\* glUniform on a location that exists
SetUniform(store, prog, name, value) ==
    IF name \in Declares(prog)
    THEN [store EXCEPT ![prog] = [@ EXCEPT ![name] = value]]
    ELSE store

\* the bump scale bound whatever the feature flag
BumpScaleUniform_Unset == DefaultUniforms.bumpScale

\* the bump scale bindUniforms passes
BumpScaleUniform == IF features.bumpy THEN Scale \div 8 ELSE Scale \div 20

\* the uniform values of the programs after bindUniforms(prog)
bindUniforms(store, prog) ==
    LET s1 == SetUniform(store, prog, "bumpScale", BumpScaleUniform)
        s2 == SetUniform(s1, prog, "selfShadowTest",
                         IF features.selfShadowing THEN Scale ELSE 0)
        s3 == SetUniform(s2, prog, "parralax",
                         IF features.parallaxEnabled THEN Scale ELSE 0)
    IN  SetUniform(s3, prog, "enableParallax", features.parallaxEnabled)

\* bindUniforms on a program only when it was built
BoundIfLoaded(store, prog) ==
    IF prog \in shaderPrograms THEN bindUniforms(store, prog) ELSE store

\* the program a viewport's draw call runs, whether or not it was built
DrawnProgram_Unchecked(prog) == prog

\* the program a viewport's draw call runs, "none" when the draw is skipped
DrawnProgram(prog) == IF prog \in shaderPrograms THEN prog ELSE "none"

\* the left edge of the left viewport with the square centred on the half
LeftX_Centred(halfW, squareW) == halfW - squareW \div 2

\* the left edge of the left viewport
LeftX(halfW, squareW) == halfW - squareW

\* the locals of the steep invocation start afresh
ResetLocals ==
    /\ tanEyeN' = Zero3 /\ numSteps' = 0 /\ deltaUV' = Zero2 /\ deltaH' = 0
    /\ curUV' = Zero2 /\ heightRem' = 0 /\ curSample' = 0
    /\ prevUV' = Zero2 /\ prevSample' = 0 /\ t' = F(0) /\ finalUV' = Zero2
    /\ iters' = 0 /\ divByZero' = FALSE
    /\ albedo' = Zero3 /\ N' = Zero3 /\ tanLightN' = Zero3 /\ NdotL' = 0
    /\ hVal' = 0 /\ specular' = 0
    /\ ao' = 0 /\ sumAO' = 0
    /\ shadow' = 0 /\ shadowSum' = 0 /\ pcfSamples' = 0
    /\ pcfDx' = 0 /\ pcfDy' = 0
    /\ numShadowSteps' = 0 /\ shadowDeltaH' = 0 /\ shadowDeltaUV' = Zero2
    /\ tapsRun' = 0 /\ tapsOccluded' = 0
    /\ fragColor' = Zero3

\* the frame count at which updatePerformance starts over
FrameCountReset == 10000

\* the counters after updatePerformance
updatePerformance(p) ==
    LET n == p.frameCount + 1
    IN  [p EXCEPT !.frameCount = IF n > FrameCountReset THEN 1 ELSE n]

\* the light position without the clamp on x
ClampedLight_FreeX(l) ==
    [x |-> l.x,
     y |-> clamp(l.y, -10 * LightUnit, 10 * LightUnit),
     z |-> clamp(l.z, 2 * LightUnit, 20 * LightUnit)]

\* the light position Handle_Display clamps before it uses it
ClampedLight(l) ==
    [x |-> clamp(l.x, -10 * LightUnit, 10 * LightUnit),
     y |-> clamp(l.y, -10 * LightUnit, 10 * LightUnit),
     z |-> clamp(l.z, 2 * LightUnit, 20 * LightUnit)]

\* the defensive checks at the head of Handle_Display
ResourcesReady ==
    /\ lights # << >>
    /\ VAO # 0
    /\ shaderPrograms # {}
    /\ texture_id # 0 /\ bumpTexture_id # 0 /\ normalTexture_id # 0

\* One frame: the counters are updated; when the resources are there the
\* camera and the light are updated, the basic program is bound and drawn
\* in the left square and the current program in the right square.  When
\* the current program is the steep shader its fragment invocation starts
\* with the uniforms just bound.  GL calls are taken to succeed.
Handle_Display ==
    /\ FrameFinished
    /\ Running
    /\ framesLeft > 0
    /\ framesLeft' = framesLeft - 1
    /\ perf' = updatePerformance(perf)
    /\ IF ResourcesReady
       THEN LET halfW == screenWidth \div 2
                squareW == IF screenHeight < halfW THEN screenHeight ELSE halfW
                bound == BoundIfLoaded(BoundIfLoaded(programUniforms, "basic"),
                                       currentShader)
                light == ClampedLight(lights[1])
            IN  /\ camera_rotate_angle' =
                      IF features.autoRotate
                      THEN camera_rotate_angle + AngleUnit \div 2
                      ELSE camera_rotate_angle
                /\ lights' = [lights EXCEPT ![1] = light]
                /\ leftViewport' =
                      Viewport(LeftX(halfW, squareW), 0, squareW, squareW)
                /\ rightViewport' = Viewport(halfW, 0, squareW, squareW)
                /\ programUniforms' = bound
                /\ selfShadowTest' = bound["steep"].selfShadowTest
                /\ bumpScale' = bound["steep"].bumpScale
                /\ frame' = [drawn |-> TRUE,
                             left |-> DrawnProgram("basic"),
                             shader |-> DrawnProgram(currentShader),
                             features |-> features,
                             width |-> screenWidth, height |-> screenHeight,
                             light |-> light]
                /\ pc' = IF DrawnProgram(currentShader) = "steep"
                         THEN "main" ELSE "idle"
                /\ ResetLocals
       ELSE UNCHANGED <<camera_rotate_angle, lights, leftViewport,
                        rightViewport, programUniforms, selfShadowTest,
                        bumpScale, frame, pc, traceVars, lightVars, aoVars,
                        shadowVars, fragColor>>
    /\ UNCHANGED <<FragUV, tanEyeVec, tanLightVec, diffuseTexture, heightMap,
                   normalMap, nanTexel, frameVars, parked, screenWidth,
                   screenHeight, features, currentShader, shaderPrograms,
                   camera_elevate_angle, mouseVars, textureVars, VAO, VBO,
                   exitVars>>

\* whether each program samples its albedo and normal textures away from
\* the interpolated coordinate
basicDisplaces == programUniforms["basic"].parralax > 0
steepDisplaces == pc = "done" /\ finalUV # FinV2(FragUV)
enhancedDisplaces == programUniforms["enhanced"].enableParallax
pbrDisplaces == programUniforms["pbr"].enableParallax

\* the frames rendered in a short session
SessionFrames == 2

\* one fragment of the quad, seen at an angle and lit from above
HostFragment ==
    /\ FragUV = V2(Scale \div 5, Scale \div 8)
    /\ tanEyeVec = V3(0, (3 * Scale) \div 5, (4 * Scale) \div 5)
    /\ tanLightVec = V3(0, 0, Scale)
    /\ heightMap = HeightFlat(Scale \div 2)
    /\ normalMap = NormalUp
    /\ diffuseTexture = DiffuseStripes
    /\ selfShadowTest = DefaultUniforms.selfShadowTest
    /\ bumpScale = DefaultUniforms.bumpScale
    /\ pc = "idle"
    /\ FreshLocals
    /\ nanTexel = [set |-> FALSE, at |-> <<0, 0>>]
    /\ evals = 0 /\ firstColor = Zero3 /\ firstUV = Zero2 /\ firstIters = 0
    /\ parked = NoInvocation

InitHost ==
    /\ HostFragment
    /\ \E loaded \in LoadOutcomes : HostStarted(loaded)
    /\ framesLeft = SessionFrames

NextHost ==
    \/ Next
    \/ Handle_Keyboard
    \/ Handle_Display

SpecHost == InitHost /\ [][NextHost]_vars

NextWindow ==
    \/ Handle_Reshape
    \/ Handle_Display

SpecWindow == InitHost /\ [][NextWindow]_vars

----------------------------------------------------------------------------
(* The keyboard alone, after every outcome of initShaders                  *)

\* the keys Handle_Keyboard has a case for, in either case where it takes
\* both, and one key ("z") it has no case for
AllKeys ==
    {"m", "M", "b", "B", "s", "S", "p", "P", "1", " ",
     "j", "J", "e", "E", "u", "U", "i", "I", "z"}

Handle_Keyboard_AnyKey == \E key \in AllKeys : KeyPress(key)

\* initShaders returns with at least one program built
LoadCombinations == (SUBSET Programs) \ {{}}

InitKeys ==
    /\ HostFragment
    /\ \E loaded \in LoadCombinations : HostStarted(loaded)
    /\ framesLeft = SessionFrames

SpecKeys == InitKeys /\ [][Handle_Keyboard_AnyKey]_vars

----------------------------------------------------------------------------
(* The mouse                                                               *)

Buttons == {"left", "right"}

\* the pointer positions tried, and how far a drag may carry the camera
\* and the light between two frames
MouseReach == 150
MaxDrag == 150
MouseCoords == {0, MouseReach}

\* A button goes down or up.  The environment presses a button that is up
\* and releases one that is down.
Handle_Mouse ==
    /\ FrameFinished
    /\ Running
    /\ \E button \in Buttons, state \in {"down", "up"},
          x \in MouseCoords, y \in MouseCoords :
          /\ (state = "down") <=> (button \notin held)
          /\ held' = IF state = "down" THEN held \cup {button}
                                       ELSE held \ {button}
          /\ IF state = "down"
             THEN /\ mouseButton' = button
                  /\ mouseX' = x
                  /\ mouseY' = y
             ELSE /\ mouseButton' = "none"
                  /\ UNCHANGED <<mouseX, mouseY>>
    /\ UNCHANGED <<inputVars, pc, nanTexel, traceVars, lightVars, aoVars,
                   shadowVars, fragColor, frameVars, parked, screenWidth,
                   screenHeight, leftViewport, rightViewport, features,
                   currentShader, shaderPrograms, programUniforms, frame,
                   sceneVars, perf, framesLeft, textureVars, VAO, VBO,
                   exitVars>>

\* the light follows the pointer unless the left button is the recorded one
DragsLight_UnlessLeft == mouseButton # "left"

\* which of the two branches of Handle_Motion runs
DragsCamera == mouseButton = "left"
DragsLight == mouseButton = "right"

\* The pointer moves with a button held down.
Handle_Motion ==
    /\ FrameFinished
    /\ Running
    /\ held # {}
    /\ \E x \in MouseCoords, y \in MouseCoords :
          LET dx == x - mouseX
              dy == y - mouseY
              l == lights[1]
              moved == [l EXCEPT !.x = @ + (dx * LightUnit) \div 10,
                                 !.y = @ - (dy * LightUnit) \div 10]
          IN  /\ camera_elevate_angle' =
                    IF DragsCamera THEN camera_elevate_angle + dy * AngleUnit
                                   ELSE camera_elevate_angle
              /\ camera_rotate_angle' =
                    IF DragsCamera THEN camera_rotate_angle + dx * AngleUnit
                                   ELSE camera_rotate_angle
              /\ lights' = IF ~DragsCamera /\ DragsLight
                           THEN [lights EXCEPT ![1] = moved]
                           ELSE lights
              /\ Abs(camera_elevate_angle') <= (MaxDrag + 20) * AngleUnit
              /\ Abs(camera_rotate_angle') <= MaxDrag * AngleUnit
              /\ Abs(lights'[1].x) <= MaxDrag
              /\ Abs(lights'[1].y) <= MaxDrag
              /\ mouseX' = x
              /\ mouseY' = y
    /\ UNCHANGED <<inputVars, pc, nanTexel, traceVars, lightVars, aoVars,
                   shadowVars, fragColor, frameVars, parked, screenWidth,
                   screenHeight, leftViewport, rightViewport, features,
                   currentShader, shaderPrograms, programUniforms, frame,
                   mouseButton, held, perf, framesLeft, textureVars, VAO,
                   VBO, exitVars>>

InitMouse ==
    /\ HostFragment
    /\ HostStarted(Programs)
    /\ framesLeft = SessionFrames

NextMouse ==
    \/ Handle_Mouse
    \/ Handle_Motion
    \/ Handle_Display

SpecMouse == InitMouse /\ [][NextMouse]_vars

----------------------------------------------------------------------------
(* A long session of frames                                                *)

\* enough frames to take the frame counter once around
InitPerf ==
    /\ HostFragment
    /\ HostStarted(Programs)
    /\ framesLeft = FrameCountReset + 2

SpecPerf == InitPerf /\ [][Handle_Display]_vars

----------------------------------------------------------------------------
(* initTextures                                                            *)

\* the widths and heights a BMP header can give
HeaderSizes == {1, 2, 3}

\* how BMP_Read can end: the file cannot be opened or has no BMP header;
\* the header is not 24 bit; the pixel data is short; the image is read
ReadResults == {"unreadable", "depth", "truncated", "read"}

\* the buffer a new[] returns: one that was never handed out before
NewBuffer ==
    LET used == freed \cup {image_data}
    IN  1 + CHOOSE b \in used \cup {0} : \A o \in used \cup {0} : o <= b

\* One block of initTextures: BMP_Read into the shared image_data and, when
\* it succeeds, a new texture object filled from image_data.
LoadTexture ==
    /\ loadStep < Len(Textures)
    /\ loadStep' = loadStep + 1
    /\ \E result \in ReadResults, w \in HeaderSizes, h \in HeaderSizes :
          LET tex == Textures[loadStep + 1]
              allocates == result \in {"truncated", "read"}
              released == IF allocates /\ image_data # 0
                          THEN {image_data} ELSE {}
          IN  /\ image_width' = IF result = "unreadable" THEN image_width ELSE w
              /\ image_height' = IF result = "unreadable" THEN image_height ELSE h
              /\ image_data' = CASE result = "read" -> NewBuffer
                                 [] result = "truncated" -> 0
                                 [] OTHER -> image_data
              /\ freed' = freed \cup released
                          \cup (IF result = "truncated" THEN {NewBuffer} ELSE {})
              /\ texImage' = IF result = "read"
                             THEN [texImage EXCEPT ![tex] = NewBuffer]
                             ELSE texImage
              /\ texture_id' = IF result = "read" /\ tex = "diffuse"
                               THEN loadStep + 1 ELSE texture_id
              /\ bumpTexture_id' = IF result = "read" /\ tex = "bump"
                                   THEN loadStep + 1 ELSE bumpTexture_id
              /\ normalTexture_id' = IF result = "read" /\ tex = "normal"
                                     THEN loadStep + 1 ELSE normalTexture_id
    /\ UNCHANGED <<inputVars, pc, nanTexel, traceVars, lightVars, aoVars,
                   shadowVars, fragColor, frameVars, parked, screenWidth,
                   screenHeight, leftViewport, rightViewport, features,
                   currentShader, shaderPrograms, programUniforms, frame,
                   sceneVars, mouseVars, perf, framesLeft, VAO, VBO,
                   exitVars>>

\* main() at the call of initTextures: no program, geometry or light yet
InitTextures ==
    /\ HostFragment
    /\ HostGlobals({}, << >>)
    /\ framesLeft = 0
    /\ texture_id = 0 /\ bumpTexture_id = 0 /\ normalTexture_id = 0
    /\ image_data = 0 /\ image_width = 0 /\ image_height = 0
    /\ texImage = [diffuse |-> 0, bump |-> 0, normal |-> 0]
    /\ freed = {}
    /\ loadStep = 0
    /\ VAO = 0 /\ VBO = 0

SpecTextures == InitTextures /\ [][LoadTexture]_vars

----------------------------------------------------------------------------
(* Shutdown                                                                *)

\* the deepest nesting of cleanupResources calls followed
MaxNesting == 3

\* a call of cleanupResources: `at` is the resource it has reached, `zeroing`
\* holds between the delete of that resource and the reset of its id, and
\* `from` is "call" for a call followed by exit() and "atexit" for the call
\* exit() makes
CleanupCall(from) == [from |-> from, at |-> 1, zeroing |-> FALSE]

\* the process has ended
Exited == <<[from |-> "exited", at |-> 0, zeroing |-> FALSE]>>
InCleanup ==
    /\ callStack # << >>
    /\ callStack[Len(callStack)].from \in {"call", "atexit"}

\* q, Q or Esc: Handle_Keyboard calls cleanupResources and then exit(0)
Handle_Keyboard_Quit ==
    /\ FrameFinished
    /\ Running
    /\ callStack' = <<CleanupCall("call")>>
    /\ UNCHANGED <<inputVars, pc, nanTexel, traceVars, lightVars, aoVars,
                   shadowVars, fragColor, frameVars, parked, screenWidth,
                   screenHeight, leftViewport, rightViewport, features,
                   currentShader, shaderPrograms, programUniforms, frame,
                   sceneVars, mouseVars, perf, framesLeft, textureVars, VAO,
                   VBO, deleted>>

\* SIGINT or SIGTERM arrives, at any point of the running program or of a
\* cleanup: the handler calls cleanupResources and then exit(signal)
signalHandler ==
    /\ callStack # Exited
    /\ Len(callStack) < MaxNesting
    /\ callStack' = Append(callStack, CleanupCall("call"))
    /\ UNCHANGED <<inputVars, pc, nanTexel, traceVars, lightVars, aoVars,
                   shadowVars, fragColor, frameVars, parked, screenWidth,
                   screenHeight, leftViewport, rightViewport, features,
                   currentShader, shaderPrograms, programUniforms, frame,
                   sceneVars, mouseVars, perf, framesLeft, textureVars, VAO,
                   VBO, deleted>>

\* the resource still has a non-zero id (a non-empty map, a non-null pointer)
Allocated(r) ==
    CASE Resources[r] = "texture_id" -> texture_id # 0
      [] Resources[r] = "bumpTexture_id" -> bumpTexture_id # 0
      [] Resources[r] = "normalTexture_id" -> normalTexture_id # 0
      [] Resources[r] = "shaderPrograms" -> shaderPrograms # {}
      [] Resources[r] = "VBO" -> VBO # 0
      [] Resources[r] = "VAO" -> VAO # 0
      [] Resources[r] = "image_data" -> image_data # 0

\* the id of a resource after the reset that follows its delete
Reset(r, name, value, zero) == IF Resources[r] = name THEN zero ELSE value

\* One step of the innermost cleanupResources: the test and the delete of
\* the resource it has reached, or the reset of that resource's id.  The
\* programs are deleted in one loop and the map is cleared after it.
cleanupResources ==
    /\ InCleanup
    /\ LET top == Len(callStack)
           call == callStack[top]
           r == call.at
       IN  /\ r <= Len(Resources)
           /\ IF call.zeroing
              THEN /\ callStack' = [callStack EXCEPT ![top] =
                                      [call EXCEPT !.at = r + 1,
                                                   !.zeroing = FALSE]]
                   /\ texture_id' = Reset(r, "texture_id", texture_id, 0)
                   /\ bumpTexture_id' =
                         Reset(r, "bumpTexture_id", bumpTexture_id, 0)
                   /\ normalTexture_id' =
                         Reset(r, "normalTexture_id", normalTexture_id, 0)
                   /\ shaderPrograms' =
                         Reset(r, "shaderPrograms", shaderPrograms, {})
                   /\ VBO' = Reset(r, "VBO", VBO, 0)
                   /\ VAO' = Reset(r, "VAO", VAO, 0)
                   /\ image_data' = Reset(r, "image_data", image_data, 0)
                   /\ UNCHANGED <<deleted, freed>>
              ELSE /\ IF Allocated(r)
                      THEN /\ deleted' = [deleted EXCEPT ![r] = @ + 1]
                           /\ callStack' = [callStack EXCEPT ![top] =
                                              [call EXCEPT !.zeroing = TRUE]]
                           /\ freed' = IF Resources[r] = "image_data"
                                       THEN freed \cup {image_data}
                                       ELSE freed
                      ELSE /\ callStack' = [callStack EXCEPT ![top] =
                                              [call EXCEPT !.at = r + 1]]
                           /\ UNCHANGED <<deleted, freed>>
                   /\ UNCHANGED <<texture_id, bumpTexture_id,
                                  normalTexture_id, shaderPrograms, VBO, VAO,
                                  image_data>>
    /\ UNCHANGED <<inputVars, pc, nanTexel, traceVars, lightVars, aoVars,
                   shadowVars, fragColor, frameVars, parked, screenWidth,
                   screenHeight, leftViewport, rightViewport, features,
                   currentShader, programUniforms, frame, sceneVars,
                   mouseVars, perf, framesLeft, image_width, image_height,
                   texImage, loadStep>>

\* The innermost cleanupResources has returned.  After a call from a
\* handler exit() runs and calls the registered cleanupResources, and the
\* interrupted code never resumes; after that call the process ends.
ExitProcess ==
    /\ InCleanup
    /\ LET call == callStack[Len(callStack)]
       IN  /\ call.at > Len(Resources)
           /\ callStack' =
                 IF call.from = "call"
                    /\ \A i \in DOMAIN callStack : callStack[i].from # "atexit"
                 THEN <<CleanupCall("atexit")>>
                 ELSE Exited
    /\ UNCHANGED <<inputVars, pc, nanTexel, traceVars, lightVars, aoVars,
                   shadowVars, fragColor, frameVars, parked, screenWidth,
                   screenHeight, leftViewport, rightViewport, features,
                   currentShader, shaderPrograms, programUniforms, frame,
                   sceneVars, mouseVars, perf, framesLeft, textureVars, VAO,
                   VBO, deleted>>

InitShutdown ==
    /\ HostFragment
    /\ \E loaded \in LoadOutcomes : HostStarted(loaded)
    /\ framesLeft = 0

NextShutdown ==
    \/ Handle_Keyboard_Quit
    \/ signalHandler
    \/ cleanupResources
    \/ ExitProcess

SpecShutdown == InitShutdown /\ [][NextShutdown]_vars

----------------------------------------------------------------------------
(* Properties                                                              *)

Traced == pc \notin {"main", "march"}
ShadowSettled == pc \in {"composite", "done"}
FlatHalf == HeightFlat(Scale \div 2)

\* the self-shadow pass ran, on finite texture coordinates
ShadowPassRan ==
    ShadowSettled /\ ShadowPassRuns /\ IsFinV2(finalUV) /\ IsFinV2(shadowDeltaUV)

\* C1: whenever the self-shadow pass ran, whatever taps were occluded, the
\* shadow factor lies in [shadowMin, 1.0].
C1_ShadowWithinFloor ==
    ShadowPassRan => (shadowMin <= shadow /\ shadow <= Scale)

\* C2: the shadow factor is the sum of the tap contributions divided by the
\* number of taps executed, 49.
C2_AverageOverExecutedTaps ==
    ShadowPassRan =>
        /\ tapsRun = (2 * pcfRings + 1) * (2 * pcfRings + 1)
        /\ shadow = FxDiv(shadowSum, tapsRun * Scale)

\* C3: with self-shadowing disabled or the surface facing away from the
\* light, the shadow factor handed to the composite is exactly 1.0.
C3_DisabledIsFullyLit ==
    (ShadowSettled /\ (selfShadowTest <= 0 \/ NdotL <= 0)) => shadow = Scale

C3_Witness ==
    /\ pc = "done"
    /\ selfShadowTest > 0
    /\ NdotL = 0
    /\ heightMap = HeightRidge
    /\ shadow = Scale

\* C4: with bumpScale = 0 parallaxTrace returns exactly the input UV.
C4_ZeroBumpReturnsInput ==
    (Traced /\ bumpScale = 0) => finalUV = FinV2(FragUV)

\* C5 as stated: on the constant 0.5 height field parallaxTrace returns the
\* input UV for every view with z # 0 and every bumpScale > 0.
C5_FlatFieldReturnsInput ==
    (Traced /\ heightMap = FlatHalf /\ tanEyeN.z # 0 /\ bumpScale > 0)
        => finalUV = FinV2(FragUV)

\* C5 amended: on the constant 0.5 height field, with view.z # 0 and
\* bumpScale > 0, the march runs at least numSteps / 2 steps; the input UV is
\* returned when view.x = view.y = 0 and a displaced UV for a tilted view.
C5_FlatFieldDisplacedUnlessFaceOn ==
    (Traced /\ heightMap = FlatHalf /\ tanEyeN.z # 0 /\ bumpScale > 0) =>
        /\ 2 * iters * Scale >= numSteps
        /\ (tanEyeN.x = 0 /\ tanEyeN.y = 0) => finalUV = FinV2(FragUV)
        /\ (tanEyeN.x # 0 \/ tanEyeN.y # 0) => finalUV # FinV2(FragUV)

C5_Witness ==
    /\ pc = "traced"
    /\ heightMap = FlatHalf
    /\ tanEyeN.z # 0 /\ tanEyeN.y # 0
    /\ bumpScale > 0
    /\ IsFinV2(finalUV)
    /\ finalUV # FinV2(FragUV)

StrictlyInside(a, lo, hi) ==
    /\ IsFin(a)
    /\ Min(lo.v, hi.v) <= a.v /\ a.v <= Max(lo.v, hi.v)

\* C6: at a strict crossing the returned UV lies between prevUV and curUV
\* and is neither of the two.
C6_InterpolatesBetweenSamples ==
    (/\ Traced /\ iters > 0
     /\ IsFinV2(prevUV) /\ IsFinV2(curUV) /\ prevUV # curUV
     /\ prevSample < heightRem + deltaH
     /\ curSample > heightRem)
    => /\ StrictlyInside(finalUV.x, prevUV.x, curUV.x)
       /\ StrictlyInside(finalUV.y, prevUV.y, curUV.y)
       /\ finalUV # prevUV
       /\ finalUV # curUV

C8_DeltasGuarded ==
    /\ pc # "main" => (DeltaDivisor(tanEyeN) # 0 /\ IsFinV2(deltaUV))
    /\ (pc \in {"pcf", "composite", "done"} /\ ShadowPassRuns)
          => (ShadowDivisor(tanLightN) # 0 /\ IsFinV2(shadowDeltaUV))

\* the light-dependent parts of one colour channel
DiffuseLit(alb, light) == FxMul(FxMul(light, diffuseCoeff), NdotL)
SpecularLit(light) == FxMul(light, specular)

\* the colour of a channel without diffuse light and with ao = 1.0
UnoccludedUnlit(alb, amb, light) ==
    FxMul(alb, amb) + FxMul(SpecularLit(light), shadow)

AoOnAmbientOnly(out, alb, amb, light) ==
    out = FxMul(alb, FxMul(amb, ao) + FxMul(DiffuseLit(alb, light), shadow))
          + FxMul(SpecularLit(light), shadow)

AmbientOnly(alb, amb) == FxMul(alb, FxMul(amb, ao))
FullyLit(alb, amb, light) ==
    FxMul(alb, FxMul(amb, ao) + DiffuseLit(alb, light)) + SpecularLit(light)

ShadowScalesLight(out, alb, amb, light) ==
    Abs((out - AmbientOnly(alb, amb))
        - FxMul(FullyLit(alb, amb, light) - AmbientOnly(alb, amb), shadow)) <= 3

\* C10: the shadow factor scales the diffuse and the specular contribution
\* and leaves the ambient contribution alone: the colour is the ambient part
\* plus shadow times the light-dependent part (up to rounding).
C10_ShadowScalesDiffuseAndSpecular ==
    pc = "done" =>
        /\ ShadowScalesLight(fragColor.x, albedo.x, ambientBase.x, lightColor.x)
        /\ ShadowScalesLight(fragColor.y, albedo.y, ambientBase.y, lightColor.y)
        /\ ShadowScalesLight(fragColor.z, albedo.z, ambientBase.z, lightColor.z)

C10_Witness ==
    /\ pc = "done"
    /\ ShadowPassRuns
    /\ shadow < Scale
    /\ NdotL > 0
    /\ specular > Scale \div 10
    /\ albedo.x > 0

----------------------------------------------------------------------------
(* Ambient occlusion range, step count and termination of the march        *)

AoSettled == pc \in {"shadow", "pcf", "composite", "done"}

\* C11: the ambient-occlusion factor lies in [aoMin, 1.0].
C11_AoWithinFloor == AoSettled => (aoMin <= ao /\ ao <= Scale)

C11_Witness ==
    /\ pc = "done"
    /\ IsFinV2(finalUV)
    /\ heightMap = HeightRidge
    /\ aoMin < ao /\ ao < Scale

\* |view.z| sampled over [0, 1]
ZGridSteps == 16
ZGrid == {(k * Scale) \div ZGridSteps : k \in 0 .. ZGridSteps}
ViewWithZ(z) == V3(0, 0, z)

\* C12: the step count of the view march stays within [36, 72], is 36 for a
\* face-on view, larger for every other view, 72 at view.z = 0, and does not
\* increase with |view.z|.
C12_StepCountFallsWithViewZ ==
    /\ pc # "main" =>
          /\ 36 * Scale <= numSteps /\ numSteps <= 72 * Scale
          /\ Abs(tanEyeN.z) = Scale => numSteps = 36 * Scale
          /\ Abs(tanEyeN.z) < Scale => numSteps > 36 * Scale
          /\ tanEyeN.z = 0 => numSteps = 72 * Scale
    /\ (pc = "march" /\ iters = 0) =>
          \A z \in ZGrid :
              /\ z <= Abs(tanEyeN.z) => NumSteps(ViewWithZ(-z)) >= numSteps
              /\ z >= Abs(tanEyeN.z) => NumSteps(ViewWithZ(z)) <= numSteps

C12_Witness ==
    /\ pc = "traced"
    /\ 0 < tanEyeN.z /\ tanEyeN.z < Scale
    /\ 36 * Scale < numSteps /\ numSteps < 72 * Scale

\* ceil(numSteps) as a count of iterations
CeilSteps == (numSteps + Scale - 1) \div Scale

\* the loop has been left: the sample reached the ray or the ray the floor
MarchExit == curSample >= heightRem \/ heightRem <= 0

\* C13 as stated: the march loop runs at most ceil(numSteps) iterations and
\* on exit the sample is at or above the ray height or the ray height is
\* at or below zero.
C13_MarchWithinStepCount ==
    /\ iters <= CeilSteps
    /\ Traced => MarchExit

\* C13 amended: the march loop runs at most ceil(numSteps) + 1 iterations,
\* the extra one when the rounded deltaH leaves heightRem above zero after
\* ceil(numSteps) steps; the exit condition holds as stated.
C13_MarchWithinStepCountPlusOne ==
    /\ iters <= CeilSteps + 1
    /\ Traced => MarchExit

C13_Witness ==
    /\ pc = "traced"
    /\ iters >= CeilSteps
    /\ heightRem <= 0
    /\ curSample < heightRem + deltaH

----------------------------------------------------------------------------
(* Determinism of the pipeline                                             *)

\* no quotient of the two evaluations had a zero divisor
NoZeroDivisor ==
    /\ ~divByZero
    /\ normalize(tanEyeVec).z # 0
    /\ normalize(tanLightVec).z # 0

\* C14: the second evaluation of a fragment with the same inputs yields the
\* colour of the first, also when the march loop ran zero times.
C14_SameInputsSameColour ==
    (evals = 1 /\ pc = "done" /\ NoZeroDivisor) => fragColor = firstColor

\* both invocations have written their colour
BothDone == pc = "done" /\ parked # NoInvocation /\ parked.pc = "done"

\* C15: two invocations with equal inputs, interleaved in any order, end
\* with the same colour.
C15_ColourIndependentOfInterleaving ==
    (BothDone /\ ~divByZero /\ ~parked.divByZero
        /\ parked.FragUV = FragUV /\ parked.tanEyeVec = tanEyeVec
        /\ parked.tanLightVec = tanLightVec)
    => fragColor = parked.fragColor

\* the distance of two finite coordinates
Apart(a, b) == Abs(a.v - b.v)

\* C17: the UVs parallaxTrace returns at bumpScale and at bumpScale + epsilon
\* differ by at most one per-step delta (and the drift of one unit per step
\* that the changed delta accumulates).
C17_NeighbouringBumpScalesAgree ==
    (evals = 1 /\ pc = "traced" /\ IsFinV2(firstUV) /\ IsFinV2(finalUV)
        /\ IsFinV2(deltaUV))
    => /\ Apart(finalUV.x, firstUV.x) <= Abs(deltaUV.x.v) + Max(iters, firstIters)
       /\ Apart(finalUV.y, firstUV.y) <= Abs(deltaUV.y.v) + Max(iters, firstIters)

\* lerp(48.0, 12.0, |z|) truncated to an integer
LightSteps(z) == (48 * Scale - FxMul(z, 36 * Scale)) \div Scale

\* c * bumpScale * steepScale / (|light.z| * stepCount)
LightDelta(c) ==
    F(FxDiv(FxMul(FxMul(c, bumpScale), steepScale),
            FxMul(Abs(tanLightN.z), numShadowSteps * Scale)))

ShadowStarted == pc \in {"pcf", "composite", "done"} /\ ShadowPassRuns

\* C16: the light march takes its u delta from light.y and its v delta from
\* light.x, scaled by bumpScale and the steepScale of parallaxTrace and
\* divided by |light.z| * shadowStepCount; the step count stays within
\* [12, 48] and does not increase with |light.z|.
C16_LightDeltaFollowsViewConvention ==
    /\ ShadowStarted =>
          /\ 12 <= numShadowSteps /\ numShadowSteps <= 48
          /\ numShadowSteps = LightSteps(Abs(tanLightN.z))
          /\ IsFinV2(shadowDeltaUV) =>
                /\ shadowDeltaUV.x = LightDelta(tanLightN.y)
                /\ shadowDeltaUV.y = LightDelta(tanLightN.x)
    /\ (pc = "pcf" /\ tapsRun = 0) =>
          \A z \in ZGrid :
              /\ z <= Abs(tanLightN.z) => LightSteps(z) >= numShadowSteps
              /\ z >= Abs(tanLightN.z) => LightSteps(z) <= numShadowSteps

C16_Witness ==
    /\ pc = "pcf"
    /\ tanLightN.y # 0 /\ tanLightN.x = 0
    /\ IsFinV2(shadowDeltaUV)
    /\ shadowDeltaUV.x.v > 0 /\ shadowDeltaUV.y.v = 0
    /\ 12 < numShadowSteps /\ numShadowSteps < 48

----------------------------------------------------------------------------
(* The host: viewports, parallax switch, self-shadow switch                *)

\* C18: for every window size with screenWidth >= 0 and screenHeight >= 0
\* the two viewports Handle_Display sets are squares of side
\* min(screenHeight, screenWidth / 2); the left one lies in
\* 0 <= x < screenWidth / 2, the right one starts at screenWidth / 2 and
\* ends at or before screenWidth, both fit the window height, and they do
\* not overlap.
C18_ViewportsSplitWindow ==
    frame.drawn =>
        LET half == frame.width \div 2
            side == Min(frame.height, half)
        IN  /\ leftViewport.w = side /\ leftViewport.h = side
            /\ rightViewport.w = side /\ rightViewport.h = side
            /\ 0 <= leftViewport.x
            /\ leftViewport.x + leftViewport.w <= half
            /\ rightViewport.x = half
            /\ rightViewport.x + rightViewport.w <= frame.width
            /\ leftViewport.y = 0 /\ leftViewport.h <= frame.height
            /\ rightViewport.y = 0 /\ rightViewport.h <= frame.height
            /\ leftViewport.x + leftViewport.w <= rightViewport.x

\* a frame drawn in a window of odd width that is wider than twice its
\* height: the left square does not start at the window edge
C18_Witness ==
    /\ frame.drawn
    /\ frame.width % 2 = 1
    /\ 0 < frame.height /\ frame.height < frame.width \div 2
    /\ leftViewport.x > 0
    /\ rightViewport.x + rightViewport.w < frame.width

\* the program drawn in the right square samples away from FragUV
RightDisplaces ==
    CASE frame.shader = "basic" -> basicDisplaces
      [] frame.shader = "steep" -> steepDisplaces
      [] frame.shader = "enhanced" -> enhancedDisplaces
      [] frame.shader = "pbr" -> pbrDisplaces
      [] OTHER -> FALSE

\* C19: in a frame drawn with features.parallaxEnabled = false, the basic
\* program in the left square and whichever program (basic, steep,
\* enhanced, PBR) is drawn in the right square sample their albedo and
\* normal textures at the undisplaced FragUV.
C19_DisabledParallaxSamplesInputUV ==
    (frame.drawn /\ ~frame.features.parallaxEnabled) =>
        /\ "basic" \in shaderPrograms => ~basicDisplaces
        /\ ~RightDisplaces

\* C20: in every frame the self-shadow switch the right-hand program reads
\* (selfShadowTest > 0 in the steep shader, enableSelfShadowing in the
\* enhanced shader) equals features.selfShadowing as the S key left it.
C20_SelfShadowFlagFollowsKey ==
    frame.drawn =>
        /\ frame.shader = "steep" =>
              ((selfShadowTest > 0) <=> frame.features.selfShadowing)
        /\ frame.shader = "enhanced" =>
              (programUniforms["enhanced"].enableSelfShadowing
                  <=> frame.features.selfShadowing)

----------------------------------------------------------------------------
(* The host: keys                                                          *)

\* the program a selection key asks for
Requested(key) ==
    CASE key \in {"j", "J"} -> "basic"
      [] key \in {"i", "I"} -> "steep"
      [] key \in {"e", "E"} -> "enhanced"
      [] key \in {"u", "U"} -> "pbr"
      [] OTHER -> "none"

\* C21: pressing J, I, E or U sets currentShader to basic, steep, enhanced
\* or pbr when that program was loaded and to steep when it was not; every
\* other key leaves currentShader as it was.
C21_SelectionKeys ==
    [][\A key \in AllKeys :
          KeyPress(key) =>
              currentShader' =
                  IF Requested(key) = "none" THEN currentShader
                  ELSE IF Requested(key) \in shaderPrograms
                       THEN Requested(key) ELSE "steep"]_vars

\* a selection fell back to steep: enhanced was built and selected at the
\* start, basic and pbr were not built
C21_Witness ==
    /\ currentShader = "steep"
    /\ shaderPrograms = {"steep", "enhanced"}

\* the flag a toggle key owns
FlagOf(key) ==
    CASE key \in {"m", "M"} -> "multisampling"
      [] key \in {"b", "B"} -> "bumpy"
      [] key \in {"s", "S"} -> "selfShadowing"
      [] key \in {"p", "P"} -> "parallaxEnabled"

ToggleKeys == {"m", "M", "b", "B", "s", "S", "p", "P"}

\* C22: each of the keys M, B, S, P, in either case, flips its own feature
\* flag and leaves every other flag, the camera angles, the light and the
\* shader selection unchanged; the same key pressed again gives back the
\* flags and the selection from before the first press.
C22_ToggleKeys ==
    [][\A key \in ToggleKeys :
          KeyPress(key) =>
              /\ features' = [features EXCEPT ![FlagOf(key)] = ~@]
              /\ UNCHANGED <<camera_rotate_angle, camera_elevate_angle,
                             lights, currentShader>>
              /\ ToggledFeatures(key)' = features
              /\ SelectedShader(key)' = currentShader]_vars

\* M was pressed once: multisampling is off, every other flag at its default
C22_Witness == features = [DefaultFeatures EXCEPT !.multisampling = FALSE]

\* C30: after initShaders and after any sequence of key presses,
\* currentShader names a program present in shaderPrograms, whichever of
\* the four programs were built (at least one).
C30_CurrentShaderLoaded == currentShader \in shaderPrograms

----------------------------------------------------------------------------
(* The host: what a frame binds and draws                                  *)

\* the programs a frame ran
FramePrograms == {frame.left, frame.shader} \ {"none"}

\* C26: whatever keys were pressed, the bumpScale a frame binds for each
\* program it draws is 0.125 when features.bumpy is set and 0.05 when it is
\* not, and so is the bumpScale the steep invocation reads: it is positive.
C26_BumpScaleFollowsBumpy ==
    frame.drawn =>
        LET expected == IF frame.features.bumpy THEN Scale \div 8
                                                ELSE Scale \div 20
        IN  /\ expected > 0
            /\ \A prog \in FramePrograms :
                  programUniforms[prog].bumpScale = expected
            /\ pc # "idle" => bumpScale = expected

\* B was pressed and the steep program drew the right square
C26_Witness ==
    /\ frame.drawn /\ frame.features.bumpy
    /\ frame.left = "basic" /\ frame.shader = "steep"
    /\ pc = "done" /\ bumpScale = Scale \div 8

\* C29: a frame draws the quad in a viewport only with the three texture
\* ids and the VAO non-zero, a light in the list and the viewport's program
\* (basic on the left, currentShader on the right) present in
\* shaderPrograms; a program that is not there is not drawn.
C29_DrawsGuarded ==
    frame.drawn =>
        /\ FramePrograms \subseteq shaderPrograms
        /\ FramePrograms # {} =>
              /\ texture_id # 0 /\ bumpTexture_id # 0 /\ normalTexture_id # 0
              /\ VAO # 0
              /\ lights # << >>
        /\ frame.left \in {"basic", "none"}
        /\ frame.left = "none" <=> "basic" \notin shaderPrograms

\* a frame whose right-hand draw was skipped: steep was selected and not built
C29_Witness ==
    /\ frame.drawn
    /\ frame.left = "basic" /\ frame.shader = "none"
    /\ currentShader = "steep" /\ "steep" \notin shaderPrograms

----------------------------------------------------------------------------
(* The host: mouse, camera and light                                       *)

\* what a drag leaves alone whatever the button
DragKeeps ==
    UNCHANGED <<screenWidth, screenHeight, leftViewport, rightViewport,
                features, currentShader, shaderPrograms, programUniforms,
                frame, mouseButton, perf, textureVars, VAO, VBO>>

\* C23: a drag with the left button (recorded, or the only one held) leaves
\* the light alone; a drag with the right button (recorded, or the only one
\* held) leaves the camera angles and the light's z alone; motion while no
\* button is recorded as pressed changes neither the camera nor the light.
\* No drag changes anything but the camera angles, the light and the stored
\* mouse position.
C23_DragsMoveCameraOrLight ==
    [][Handle_Motion =>
          /\ DragKeeps
          /\ Len(lights') = Len(lights)
          /\ lights'[1].z = lights[1].z
          /\ (mouseButton = "left" \/ held = {"left"}) => UNCHANGED lights
          /\ (mouseButton = "right" \/ held = {"right"}) =>
                UNCHANGED <<camera_rotate_angle, camera_elevate_angle>>
          /\ mouseButton = "none" =>
                UNCHANGED <<camera_rotate_angle, camera_elevate_angle,
                            lights>>]_vars

\* the camera was dragged with the left button, the light with the right
\* one, and the pointer now moves with a button held that is not recorded
C23_Witness ==
    /\ camera_rotate_angle # 0
    /\ lights[1].x # DefaultLight.x
    /\ mouseButton = "none" /\ held # {}
    /\ mouseX # 0

\* C27: the light position a frame uses, for the marker and to compute the
\* lightPosition uniform, has x and y in [-10, 10] and z in [2, 20],
\* whatever drags came before.
C27_FrameLightClamped ==
    frame.drawn =>
        /\ -10 * LightUnit <= frame.light.x /\ frame.light.x <= 10 * LightUnit
        /\ -10 * LightUnit <= frame.light.y /\ frame.light.y <= 10 * LightUnit
        /\ 2 * LightUnit <= frame.light.z /\ frame.light.z <= 20 * LightUnit

\* a frame after the light was dragged past +10 in x and past -10 in y
C27_Witness ==
    /\ frame.drawn
    /\ frame.light.x = 10 * LightUnit
    /\ frame.light.y = -10 * LightUnit

----------------------------------------------------------------------------
(* The host: performance counter                                           *)

\* C24: the frame counter is reset every 1000 frames: after any number of
\* calls of updatePerformance, perf.frameCount is at most 1000.
C24_FrameCountWithinThousand == perf.frameCount <= 1000

----------------------------------------------------------------------------
(* The host: texture buffers                                               *)

\* C25: each texture is loaded into a buffer of its own: the buffer passed
\* to glTexImage2D for a texture is not freed (or reused) by the load of a
\* later texture.
C25_UploadedBuffersKept ==
    \A tex \in DOMAIN texImage :
        texImage[tex] # 0 => texImage[tex] \notin freed

----------------------------------------------------------------------------
(* The host: shutdown                                                      *)

\* C28: on every shutdown path (the quit key, with the cleanupResources
\* that exit() runs again, and a signal handler that can interrupt the
\* program anywhere, cleanupResources included) each texture, the shader
\* programs, the vertex buffer, the vertex array and the image buffer are
\* deleted at most once.
C28_DeletedAtMostOnce == \A r \in DOMAIN deleted : deleted[r] <= 1

====
